---- MODULE Spec2Model ----
(***************************************************************************)
(* A model of update_package.py, the release driver of codebase-digest:    *)
(* one run of main() over the persistent state it finds (the keyring, the  *)
(* environment, the git remotes, VERSION, setup.py and dist/).             *)
(*                                                                         *)
(* Text is modelled as sequences of tokens.  A version string is a         *)
(* sequence of characters drawn from Alphabet; the text of setup.py is a   *)
(* sequence whose tokens are the literal "version=", the two quote         *)
(* characters, version characters and other pieces of source text.         *)
(***************************************************************************)
EXTENDS Integers, Sequences, FiniteSets, TLC

VARIABLES pc, phase, exit_code, failed, succeeded, effects,
          environ, keyring, deleteRaises, attempt, cred,
          git_dir, remotes, add_attempted,
          VERSION, setup_py, new_version,
          dist, dist_files, uploaded

vars == <<pc, phase, exit_code, failed, succeeded, effects,
          environ, keyring, deleteRaises, attempt, cred,
          git_dir, remotes, add_attempted,
          VERSION, setup_py, new_version,
          dist, dist_files, uploaded>>

----------------------------------------------------------------------------
(* Bounds and alphabets *)

MaxLen == 3

Digits == {"1"}
Letters == {"a"}
Alphabet == Digits \cup Letters \cup {"."}

RECURSIVE SeqsUpTo(_, _)
SeqsUpTo(S, n) ==
    IF n = 0 THEN {<<>>}
    ELSE LET shorter == SeqsUpTo(S, n - 1)
         IN  shorter \cup {Append(s, c) : s \in {t \in shorter : Len(t) = n - 1}, c \in S}

\* what the operator can type at the version prompt
Inputs == SeqsUpTo(Alphabet, MaxLen)

Sub(s, i, j) == SubSeq(s, i, j)

----------------------------------------------------------------------------
(* update_version: the two checks of the prompt loop *)

IsDigits(s) == Len(s) >= 1 /\ \A i \in 1..Len(s) : s[i] \in Digits
IsAlnum(s) == Len(s) >= 1 /\ \A i \in 1..Len(s) : s[i] \in Digits \cup Letters
IsDotGroup(s) == Len(s) >= 2 /\ s[1] = "." /\ IsDigits(Tail(s))

\* (\.\d+){0,2}
DotGroups02(s) ==
    \/ s = <<>>
    \/ IsDotGroup(s)
    \/ \E k \in 2..(Len(s) - 2) : IsDotGroup(Sub(s, 1, k)) /\ IsDotGroup(Sub(s, k + 1, Len(s)))

\* (\.?[a-zA-Z0-9]+)?
OptTag(s) ==
    \/ s = <<>>
    \/ IsAlnum(s)
    \/ Len(s) >= 2 /\ s[1] = "." /\ IsAlnum(Tail(s))

\* re.match(r'^\d+(\.\d+){0,2}(\.?[a-zA-Z0-9]+)?$', new_version)
re_match_shape(s) ==
    \E i \in 1..Len(s) : \E j \in i..Len(s) :
        /\ IsDigits(Sub(s, 1, i))
        /\ DotGroups02(Sub(s, i + 1, j))
        /\ OptTag(Sub(s, j + 1, Len(s)))

\* \d+(\.\d+)*  : the release segment of a PEP 440 version
RECURSIVE IsRelease(_)
IsRelease(s) ==
    \/ IsDigits(s)
    \/ \E k \in 1..(Len(s) - 2) :
           IsDigits(Sub(s, 1, k)) /\ s[k + 1] = "." /\ IsRelease(Sub(s, k + 2, Len(s)))

\* [-_.]?(a|b|c|rc|alpha|beta|pre|preview)[-_.]?\d*  over Alphabet: the only
\* pre-release spelling its letters can form is "a"
IsPreTag(s) ==
    \E d \in {0, 1} :
        /\ Len(s) >= d + 1
        /\ (d = 1 => s[1] = ".")
        /\ s[d + 1] = "a"
        /\ LET rest == Sub(s, d + 2, Len(s))
           IN  \/ rest = <<>>
               \/ IsDigits(rest)
               \/ Len(rest) >= 1 /\ rest[1] = "." /\ (Len(rest) = 1 \/ IsDigits(Tail(rest)))

\* version.parse(new_version) does not raise InvalidVersion
version_parse_ok(s) ==
    \/ IsRelease(s)
    \/ \E k \in 1..(Len(s) - 1) : IsRelease(Sub(s, 1, k)) /\ IsPreTag(Sub(s, k + 1, Len(s)))

update_version_accepts_noparse(s) == re_match_shape(s)

\* the condition under which the while loop of update_version breaks
update_version_accepts(s) == re_match_shape(s) /\ version_parse_ok(s)

----------------------------------------------------------------------------
(* setup.py as text, and re.sub over it *)

V == "version="
SQ == "'"
DQ == "\""
VersionChars == Digits \cup {"."}

\* length of the longest run of [\d.] starting at index i
RECURSIVE RunLen(_, _)
RunLen(c, i) ==
    IF i <= Len(c) /\ c[i] \in VersionChars THEN 1 + RunLen(c, i + 1) ELSE 0

\* length of the match of  version=[Q][\d.]+[Q]  at index i, 0 when there is none.
\* [\d.]+ is greedy and a quote is not in [\d.], so the run must end at a quote.
MatchLen(c, i, Q) ==
    IF c[i] = V /\ i + 1 <= Len(c) /\ c[i + 1] \in Q
    THEN LET r == RunLen(c, i + 2)
         IN  IF r >= 1 /\ i + 2 + r <= Len(c) /\ c[i + 2 + r] \in Q THEN r + 3 ELSE 0
    ELSE 0

\* f"version='{new_version}'"
Replacement(v) == <<V, SQ>> \o v \o <<SQ>>

\* the text from index i on, with every match replaced, leftmost first
RECURSIVE SubFrom(_, _, _, _)
SubFrom(c, i, Q, repl) ==
    IF i > Len(c) THEN <<>>
    ELSE LET m == MatchLen(c, i, Q)
         IN  IF m > 0
             THEN repl \o SubFrom(c, i + m, Q, repl)
             ELSE <<c[i]>> \o SubFrom(c, i + 1, Q, repl)

\* re.sub(pattern, repl, content): count is left at its default, so every
\* non-overlapping match is replaced
re_sub(Q, repl, content) == SubFrom(content, 1, Q, repl)

\* the quote characters each of the two patterns admits
QuotesUpdateVersion == {SQ, DQ}
QuotesUpdateSetupPy == {SQ}

----------------------------------------------------------------------------
(* Credentials: os.environ, the keyring, the prompt *)

Unset == "<unset>"          \* os.environ.get / keyring.get_password give None
GithubToken == <<"github", "token">>
PypiUsername == <<"pypi", "username">>
PypiToken == <<"pypi", "token">>
Pairs == {GithubToken, PypiUsername, PypiToken}

\* the environment variable main consults for each pair
EnvName(p) ==
    IF p = GithubToken THEN "GITHUB_TOKEN"
    ELSE IF p = PypiUsername THEN "PYPI_USERNAME" ELSE "PYPI_PASSWORD"
EnvNames == {EnvName(p) : p \in Pairs}

EnvValues == {Unset, "", "e"}
StoredValues == {Unset, "", "k"}
Typed == {"", "t"}
TypedNames == {"", "u"}

\* Python truthiness of an optional string
Truthy(x) == x # Unset /\ x # ""

NoCred == [value |-> Unset, source |-> "none", consulted |-> {}]

\* get_or_set_credential(service, credential_type, prompt) over keyring kr,
\* with what the operator types and answers to "save?"
get_or_set_credential(kr, p, typed, save) ==
    IF ~Truthy(kr[p])
    THEN [value |-> typed, source |-> "prompt", consulted |-> {"keyring", "prompt"},
          keyring |-> IF save THEN [kr EXCEPT ![p] = typed] ELSE kr]
    ELSE [value |-> kr[p], source |-> "keyring", consulted |-> {"keyring"},
          keyring |-> kr]

Resolve_keyring_first(env, kr, p, typed, save) ==
    IF Truthy(kr[p])
    THEN [value |-> kr[p], source |-> "keyring", consulted |-> {"keyring"}, keyring |-> kr]
    ELSE IF Truthy(env[EnvName(p)])
    THEN [value |-> env[EnvName(p)], source |-> "env", consulted |-> {"keyring", "env"},
          keyring |-> kr]
    ELSE [value |-> typed, source |-> "prompt", consulted |-> {"keyring", "env", "prompt"},
          keyring |-> IF save THEN [kr EXCEPT ![p] = typed] ELSE kr]

\* os.environ.get(NAME) or get_or_set_credential(...)
Resolve(env, kr, p, typed, save) ==
    IF Truthy(env[EnvName(p)])
    THEN [value |-> env[EnvName(p)], source |-> "env", consulted |-> {"env"},
          keyring |-> kr]
    ELSE LET r == get_or_set_credential(kr, p, typed, save)
         IN  [r EXCEPT !.consulted = r.consulted \cup {"env"}]

CredOf(r) == [value |-> r.value, source |-> r.source, consulted |-> r.consulted]

\* keyring.delete_password: whether it raises PasswordDeleteError, and the
\* keyring it leaves.  Deleting an entry that is not there raises on the
\* backends that report it and does nothing on the others.
DeleteRaises(kr, p, raises) == kr[p] = Unset /\ raises
delete_password(kr, p) == [kr EXCEPT ![p] = Unset]

login_max_attempts == 3
upload_max_attempts == 3

----------------------------------------------------------------------------
(* git remotes, dist/ and the initial files *)

Range(f) == {f[x] : x \in DOMAIN f}

OriginName == <<"origin">>
UrlRepo == <<"https://github.com/u/", "repo", ".git">>
UrlOriginFork == <<"https://github.com/u/", "origin", "-fork", ".git">>

\* the remote configurations a working tree may start with: name -> url
RemoteConfigs ==
    { <<>>,
      (OriginName :> UrlRepo),
      (<<"upstream">> :> UrlRepo),
      (<<"upstream">> :> UrlOriginFork),
      (<<"origin", "-old">> :> UrlRepo),
      (OriginName :> UrlRepo) @@ (<<"upstream">> :> UrlOriginFork) }

\* the text 'git remote -v' prints, as the set of its tokens
remote_v(r) == UNION {Range(n) \cup Range(r[n]) : n \in DOMAIN r}

\* 'origin' not in remotes: a substring test on that text
origin_not_in(text) == "origin" \notin text

\* f"https://github.com/{user.login}/{repo_name}.git"
repo_url(repo_name) == <<"https://github.com/u/", repo_name, ".git">>

MaxLeftover == 2

Whl == ".whl"
TarGz == ".tar.gz"
BuiltNames == {<<"pkg-new", Whl>>, <<"pkg-new", TarGz>>}
LeftoverNames == {<<"pkg-old", Whl>>, <<"pkg-old", TarGz>>, <<"pkg-new", Whl>>,
                  <<"notes", ".txt">>, <<"sub">>}
IsDirectory(name) == name = <<"sub">>

\* f.endswith(('.whl', '.tar.gz'))
endswith_dist(name) == name[Len(name)] \in {Whl, TarGz}

Stale(names) == {[name |-> n, fresh |-> FALSE] : n \in names}
DistConfigs ==
    {[exists |-> FALSE, entries |-> {}]} \cup
    {[exists |-> TRUE, entries |-> Stale(ns)] :
        ns \in {x \in SUBSET LeftoverNames : Cardinality(x) <= MaxLeftover}}

AcceptedInputs == {s \in Inputs : update_version_accepts(s)}

Assign(q, v) == <<V, q>> \o v \o <<q>>
SetupHead == <<"setup(", "name='pkg',">>
SetupFoot == <<")">>
Extras == { <<>>,
            <<",", "#">> \o Assign(SQ, <<"1">>),
            <<",", "url=">> \o Assign(DQ, <<"1", ".", "1">>) }
Descriptor(q, v, extra) == SetupHead \o Assign(q, v) \o extra \o SetupFoot

----------------------------------------------------------------------------
(* The run *)

StepOrder == <<"repository_check", "github_login", "remote_setup", "fetch_merge",
               "version_update", "add_commit", "push", "release", "clean", "build",
               "upload", "descriptor_rewrite">>
Steps == Range(StepOrder)
IndexOf(step) == CHOOSE i \in 1..Len(StepOrder) : StepOrder[i] = step

DefaultEnviron == [n \in EnvNames |-> Unset]
DefaultKeyring == [p \in Pairs |-> Unset]
DefaultRemotes == (OriginName :> UrlRepo)
DefaultDist == [exists |-> TRUE, entries |-> Stale({<<"pkg-old", Whl>>})]
DefaultVersion == <<"1">>
DefaultSetup == Descriptor(SQ, DefaultVersion, <<>>)

InitCommon ==
    /\ pc = "repository_check"
    /\ phase = "ask"
    /\ exit_code = 0
    /\ failed = "none"
    /\ succeeded = {}
    /\ effects = {}
    /\ attempt = 0
    /\ cred = [p \in Pairs |-> NoCred]
    /\ add_attempted = FALSE
    /\ new_version = <<>>
    /\ dist_files = {}
    /\ uploaded = {}

InitGithub ==
    /\ deleteRaises \in BOOLEAN
    /\ \E e \in EnvValues : environ = [DefaultEnviron EXCEPT !["GITHUB_TOKEN"] = e]
    /\ \E k \in StoredValues : keyring = [DefaultKeyring EXCEPT ![GithubToken] = k]
    /\ git_dir = TRUE /\ remotes = DefaultRemotes
    /\ VERSION = DefaultVersion /\ setup_py = DefaultSetup /\ dist = DefaultDist

InitPypi ==
    /\ deleteRaises \in BOOLEAN
    /\ \E eu \in EnvValues, ep \in EnvValues :
          environ = [DefaultEnviron EXCEPT !["PYPI_USERNAME"] = eu, !["PYPI_PASSWORD"] = ep]
    /\ \E ku \in StoredValues, kp \in StoredValues :
          keyring = [DefaultKeyring EXCEPT ![PypiUsername] = ku, ![PypiToken] = kp]
    /\ git_dir = TRUE /\ remotes = DefaultRemotes
    /\ VERSION = DefaultVersion /\ setup_py = DefaultSetup /\ dist = DefaultDist

InitGit ==
    /\ environ = DefaultEnviron /\ keyring = DefaultKeyring /\ deleteRaises = TRUE
    /\ git_dir \in BOOLEAN /\ remotes \in RemoteConfigs
    /\ VERSION = DefaultVersion /\ setup_py = DefaultSetup /\ dist = DefaultDist

InitFiles ==
    /\ environ = DefaultEnviron /\ keyring = DefaultKeyring /\ deleteRaises = TRUE
    /\ git_dir = TRUE /\ remotes = DefaultRemotes
    /\ \E q \in {SQ, DQ}, v \in AcceptedInputs, x \in Extras :
          VERSION = v /\ setup_py = Descriptor(q, v, x)
    /\ dist = DefaultDist

InitDist ==
    /\ environ = DefaultEnviron /\ keyring = DefaultKeyring /\ deleteRaises = TRUE
    /\ git_dir = TRUE /\ remotes = DefaultRemotes
    /\ VERSION = DefaultVersion /\ setup_py = DefaultSetup
    /\ dist \in DistConfigs

\* the state main() starts in: what is on disk, in the keyring and in the
\* environment when the script is launched
Init == InitCommon /\ (InitGithub \/ InitPypi \/ InitGit \/ InitFiles \/ InitDist)

constVars == <<environ, deleteRaises, git_dir>>
credVars == <<keyring, attempt, cred, phase>>
gitVars == <<remotes, add_attempted>>
fileVars == <<VERSION, setup_py, new_version>>
distVars == <<dist, dist_files, uploaded>>

\* the step returns normally and main goes on to the next one
Advance(step, next) ==
    /\ pc' = next
    /\ succeeded' = succeeded \cup {step}
    /\ UNCHANGED <<exit_code, failed>>

\* sys.exit(1), or an exception nobody catches: the interpreter exits with 1
Die(step) ==
    /\ pc' = "exited"
    /\ exit_code' = 1
    /\ failed' = step
    /\ UNCHANGED succeeded

\* main: if not os.path.exists('.git')
CheckRepository ==
    /\ pc = "repository_check"
    /\ IF git_dir THEN Advance("repository_check", "github_login")
                  ELSE Die("repository_check")
    /\ UNCHANGED <<effects, constVars, credVars, gitVars, fileVars, distVars>>

\* github_login, one iteration, the line that obtains the token
GithubLoginResolve ==
    /\ pc = "github_login" /\ phase = "ask"
    /\ \E typed \in Typed, save \in BOOLEAN :
          LET r == Resolve(environ, keyring, GithubToken, typed, save)
          IN  /\ cred' = [cred EXCEPT ![GithubToken] = CredOf(r)]
              /\ keyring' = r.keyring
    /\ phase' = "act"
    /\ UNCHANGED <<pc, exit_code, failed, succeeded, effects, constVars, attempt,
                   gitVars, fileVars, distVars>>

GithubLoginTry_one_more_attempt ==
    /\ pc = "github_login" /\ phase = "act"
    /\ cred' = [p \in Pairs |-> NoCred]
    /\ \E ok \in BOOLEAN :
          IF ok
          THEN /\ Advance("github_login", "remote_setup")
               /\ phase' = "ask" /\ attempt' = 0
               /\ UNCHANGED keyring
          ELSE IF DeleteRaises(keyring, GithubToken, deleteRaises)
          THEN /\ Die("github_login")
               /\ UNCHANGED <<keyring, attempt, phase>>
          ELSE /\ keyring' = delete_password(keyring, GithubToken)
               /\ IF attempt < login_max_attempts
                  THEN /\ attempt' = attempt + 1 /\ phase' = "ask"
                       /\ UNCHANGED <<pc, exit_code, failed, succeeded>>
                  ELSE /\ Die("github_login")
                       /\ UNCHANGED <<attempt, phase>>
    /\ UNCHANGED <<effects, constVars, gitVars, fileVars, distVars>>

\* github_login, one iteration, the try/except around Github(token).get_user().
\* token is a local of the iteration.
GithubLoginTry ==
    /\ pc = "github_login" /\ phase = "act"
    /\ cred' = [p \in Pairs |-> NoCred]
    /\ \E ok \in BOOLEAN :
          IF ok
          THEN /\ Advance("github_login", "remote_setup")
               /\ phase' = "ask" /\ attempt' = 0
               /\ UNCHANGED keyring
          ELSE IF DeleteRaises(keyring, GithubToken, deleteRaises)
          THEN /\ Die("github_login")
               /\ UNCHANGED <<keyring, attempt, phase>>
          ELSE /\ keyring' = delete_password(keyring, GithubToken)
               /\ IF attempt < login_max_attempts - 1
                  THEN /\ attempt' = attempt + 1 /\ phase' = "ask"
                       /\ UNCHANGED <<pc, exit_code, failed, succeeded>>
                  ELSE /\ Die("github_login")
                       /\ UNCHANGED <<attempt, phase>>
    /\ UNCHANGED <<effects, constVars, gitVars, fileVars, distVars>>

\* ensure_github_remote
EnsureGithubRemote ==
    /\ pc = "remote_setup"
    /\ \E list_ok \in BOOLEAN, add_ok \in BOOLEAN, url_ok \in BOOLEAN, name \in {"repo"} :
          IF ~list_ok
          THEN /\ Die("remote_setup")
               /\ UNCHANGED <<remotes, add_attempted, effects>>
          ELSE LET need == origin_not_in(remote_v(remotes))
                   after == IF need /\ add_ok
                            THEN (OriginName :> repo_url(name)) @@ remotes
                            ELSE remotes
               IN  /\ add_attempted' = need
                   /\ remotes' = after
                   /\ effects' = effects \cup {"remotes_listed"}
                                     \cup (IF need /\ add_ok THEN {"remote_added"} ELSE {})
                   /\ IF need /\ ~add_ok
                      THEN Die("remote_setup")
                      ELSE IF url_ok /\ OriginName \in DOMAIN after
                      THEN Advance("remote_setup", "fetch_merge")
                      ELSE Die("remote_setup")
    /\ UNCHANGED <<constVars, credVars, fileVars, distVars>>

\* sync_with_remote
SyncWithRemote ==
    /\ pc = "fetch_merge"
    /\ \E fetch_ok \in BOOLEAN, merge_ok \in BOOLEAN :
          IF ~fetch_ok
          THEN Die("fetch_merge") /\ UNCHANGED effects
          ELSE IF ~merge_ok
          THEN Die("fetch_merge") /\ effects' = effects \cup {"fetched"}
          ELSE /\ Advance("fetch_merge", "version_update")
               /\ effects' = effects \cup {"fetched", "merged"}
    /\ UNCHANGED <<constVars, credVars, gitVars, fileVars, distVars>>

\* update_version, the input() of one turn of the while loop
UpdateVersionPrompt ==
    /\ pc = "version_update" /\ phase \in {"ask", "ask again"}
    /\ \E s \in Inputs : new_version' = s
    /\ phase' = "act"
    /\ UNCHANGED <<pc, exit_code, failed, succeeded, effects, constVars, keyring, attempt,
                   cred, gitVars, VERSION, setup_py, distVars>>

\* update_version, the rest of a turn whose input fails a check: the message,
\* and back to the prompt.  The rejected string is dead from here on (the next
\* input() overwrites it), so the model drops it.
UpdateVersionReject ==
    /\ pc = "version_update" /\ phase = "act"
    /\ ~update_version_accepts(new_version)
    /\ new_version' = <<>>
    /\ phase' = "ask again"
    /\ UNCHANGED <<pc, exit_code, failed, succeeded, effects, constVars, keyring, attempt,
                   cred, gitVars, VERSION, setup_py, distVars>>

\* update_version, the rest of the turn that breaks, and the two writes after it
UpdateVersionAccept ==
    /\ pc = "version_update" /\ phase = "act"
    /\ update_version_accepts(new_version)
    /\ VERSION' = new_version
    /\ setup_py' = re_sub(QuotesUpdateVersion, Replacement(new_version), setup_py)
    /\ Advance("version_update", "add_commit")
    /\ phase' = "ask"
    /\ effects' = effects \cup {"version_written"}
    /\ UNCHANGED <<constVars, keyring, attempt, cred, gitVars, new_version, distVars>>

\* main: git add, git commit
CommitChanges ==
    /\ pc = "add_commit"
    /\ \E add_ok \in BOOLEAN, commit_ok \in BOOLEAN :
          IF add_ok /\ commit_ok
          THEN /\ Advance("add_commit", "push")
               /\ effects' = effects \cup {"committed"}
          ELSE Die("add_commit") /\ UNCHANGED effects
    /\ UNCHANGED <<constVars, credVars, gitVars, fileVars, distVars>>

PushToRemote_ignore_failure ==
    /\ pc = "push"
    /\ \E ok \in BOOLEAN :
          /\ Advance("push", "release")
          /\ effects' = IF ok THEN effects \cup {"pushed"} ELSE effects
    /\ UNCHANGED <<constVars, credVars, gitVars, fileVars, distVars>>

\* push_to_remote and main's check of its result
PushToRemote ==
    /\ pc = "push"
    /\ \E ok \in BOOLEAN :
          IF ok
          THEN /\ Advance("push", "release")
               /\ effects' = effects \cup {"pushed"}
          ELSE Die("push") /\ UNCHANGED effects
    /\ UNCHANGED <<constVars, credVars, gitVars, fileVars, distVars>>

\* main: get_user, get_repo, create_git_release.  get_repo is outside the
\* try block, so its exception is not caught; either way the run ends with 1.
CreateRelease ==
    /\ pc = "release"
    /\ \E outcome \in {"created", "get_repo raises", "create_git_release raises"} :
          IF outcome = "created"
          THEN /\ Advance("release", "clean")
               /\ effects' = effects \cup {"released"}
          ELSE Die("release") /\ UNCHANGED effects
    /\ UNCHANGED <<constVars, credVars, gitVars, fileVars, distVars>>

CleanDist_skip == 
    /\ pc = "clean"
    /\ Advance("clean", "build")
    /\ UNCHANGED <<effects, dist>>
    /\ UNCHANGED <<constVars, credVars, gitVars, fileVars, dist_files, uploaded>>

\* main: if os.path.exists('dist'): os.remove every entry.  os.remove raises
\* on a directory; os.listdir gives no order, so any of the files may have
\* been removed by then.
CleanDist ==
    /\ pc = "clean"
    /\ IF ~dist.exists
       THEN /\ Advance("clean", "build")
            /\ UNCHANGED <<effects, dist>>
       ELSE IF \E e \in dist.entries : IsDirectory(e.name)
       THEN /\ \E removed \in SUBSET {e \in dist.entries : ~IsDirectory(e.name)} :
                  dist' = [dist EXCEPT !.entries = dist.entries \ removed]
            /\ Die("clean")
            /\ UNCHANGED effects
       ELSE /\ dist' = [dist EXCEPT !.entries = {}]
            /\ Advance("clean", "build")
            /\ effects' = IF dist.entries # {} THEN effects \cup {"dist_cleaned"} ELSE effects
    /\ UNCHANGED <<constVars, credVars, gitVars, fileVars, dist_files, uploaded>>

\* main: python setup.py sdist bdist_wheel, then the listing of dist/
BuildDist ==
    /\ pc = "build"
    /\ \E ok \in BOOLEAN :
          IF ok
          THEN LET kept == {e \in dist.entries : e.name \notin BuiltNames}
                   built == {[name |-> n, fresh |-> TRUE] : n \in BuiltNames}
               IN  /\ dist' = [exists |-> TRUE, entries |-> kept \cup built]
                   /\ dist_files' = {e.name : e \in {x \in kept \cup built : endswith_dist(x.name)}}
                   /\ Advance("build", "upload")
                   /\ effects' = effects \cup {"built"}
          ELSE /\ Die("build")
               /\ UNCHANGED <<effects, dist, dist_files>>
    /\ UNCHANGED <<constVars, credVars, gitVars, fileVars, uploaded>>

\* upload_to_pypi, one iteration, the two lines that obtain the credentials
UploadResolve ==
    /\ pc = "upload" /\ phase = "ask"
    /\ \E tu \in TypedNames, su \in BOOLEAN, tp \in Typed, sp \in BOOLEAN :
          LET ru == Resolve(environ, keyring, PypiUsername, tu, su)
              rp == Resolve(environ, ru.keyring, PypiToken, tp, sp)
          IN  /\ cred' = [cred EXCEPT ![PypiUsername] = CredOf(ru), ![PypiToken] = CredOf(rp)]
              /\ keyring' = rp.keyring
    /\ phase' = "act"
    /\ UNCHANGED <<pc, exit_code, failed, succeeded, effects, constVars, attempt,
                   gitVars, fileVars, distVars>>

UploadTry_keep_token ==
    /\ pc = "upload" /\ phase = "act"
    /\ cred' = [p \in Pairs |-> NoCred]
    /\ \E ok \in BOOLEAN :
          IF ok
          THEN /\ Advance("upload", "descriptor_rewrite")
               /\ uploaded' = dist_files
               /\ effects' = effects \cup {"uploaded"}
               /\ phase' = "ask" /\ attempt' = 0
               /\ UNCHANGED keyring
          ELSE IF DeleteRaises(keyring, PypiUsername, deleteRaises)
          THEN /\ Die("upload")
               /\ UNCHANGED <<keyring, attempt, phase, uploaded, effects>>
          ELSE /\ keyring' = delete_password(keyring, PypiUsername)
               /\ IF attempt < upload_max_attempts - 1
                  THEN /\ attempt' = attempt + 1 /\ phase' = "ask"
                       /\ UNCHANGED <<pc, exit_code, failed, succeeded, effects>>
                  ELSE /\ Die("upload")
                       /\ effects' = effects \cup {"upload_returned_false"}
                       /\ UNCHANGED <<attempt, phase>>
               /\ UNCHANGED uploaded
    /\ UNCHANGED <<constVars, gitVars, fileVars, dist, dist_files>>

\* upload_to_pypi, one iteration, the try/except around upload(), and main's
\* branch on the result.  username and password are locals of the iteration.
UploadTry ==
    /\ pc = "upload" /\ phase = "act"
    /\ cred' = [p \in Pairs |-> NoCred]
    /\ \E ok \in BOOLEAN :
          IF ok
          THEN /\ Advance("upload", "descriptor_rewrite")
               /\ uploaded' = dist_files
               /\ effects' = effects \cup {"uploaded"}
               /\ phase' = "ask" /\ attempt' = 0
               /\ UNCHANGED keyring
          ELSE IF DeleteRaises(keyring, PypiUsername, deleteRaises)
          THEN /\ Die("upload")
               /\ UNCHANGED <<keyring, attempt, phase, uploaded, effects>>
          ELSE LET k1 == delete_password(keyring, PypiUsername)
               IN  IF DeleteRaises(k1, PypiToken, deleteRaises)
                   THEN /\ keyring' = k1
                        /\ Die("upload")
                        /\ UNCHANGED <<attempt, phase, uploaded, effects>>
                   ELSE /\ keyring' = delete_password(k1, PypiToken)
                        /\ IF attempt < upload_max_attempts - 1
                           THEN /\ attempt' = attempt + 1 /\ phase' = "ask"
                                /\ UNCHANGED <<pc, exit_code, failed, succeeded, effects>>
                           ELSE /\ Die("upload")
                                /\ effects' = effects \cup {"upload_returned_false"}
                                /\ UNCHANGED <<attempt, phase>>
                        /\ UNCHANGED uploaded
    /\ UNCHANGED <<constVars, gitVars, fileVars, dist, dist_files>>

\* update_setup_py_version, and the return from main
UpdateSetupPyVersion ==
    /\ pc = "descriptor_rewrite"
    /\ setup_py' = re_sub(QuotesUpdateSetupPy, Replacement(new_version), setup_py)
    /\ effects' = effects \cup {"setup_rewritten"}
    /\ pc' = "exited"
    /\ exit_code' = 0
    /\ succeeded' = succeeded \cup {"descriptor_rewrite"}
    /\ UNCHANGED <<failed, constVars, credVars, gitVars, VERSION, new_version, distVars>>

Next ==
    \/ CheckRepository
    \/ GithubLoginResolve
    \/ GithubLoginTry
    \/ EnsureGithubRemote
    \/ SyncWithRemote
    \/ UpdateVersionPrompt
    \/ UpdateVersionReject
    \/ UpdateVersionAccept
    \/ CommitChanges
    \/ PushToRemote
    \/ CreateRelease
    \/ CleanDist
    \/ BuildDist
    \/ UploadResolve
    \/ UploadTry
    \/ UpdateSetupPyVersion

Spec == Init /\ [][Next]_vars

\* the runs that differ in where the github token comes from
InitLogin == InitCommon /\ InitGithub

\* the interpreter runs the script to its end: whenever a step can be taken,
\* one eventually is
FairSpec == InitLogin /\ [][Next]_vars /\ WF_vars(Next)

----------------------------------------------------------------------------
(* Properties *)

Quotes == {SQ, DQ}

\* index of the first  version=<quote>  in a text, 0 when there is none
FirstAssign(c) ==
    LET at == {i \in 1..(Len(c) - 1) : c[i] = V /\ c[i + 1] \in Quotes}
    IN  IF at = {} THEN 0 ELSE CHOOSE i \in at : \A j \in at : i <= j

RECURSIVE UpToQuote(_, _)
UpToQuote(c, i) ==
    IF i > Len(c) \/ c[i] \in Quotes THEN <<>> ELSE <<c[i]>> \o UpToQuote(c, i + 1)

\* the version a reader of setup.py finds in it: what stands between the
\* quotes of its first version= assignment
EmbeddedVersion(c) ==
    IF FirstAssign(c) = 0 THEN <<"<none>">> ELSE UpToQuote(c, FirstAssign(c) + 2)

UpdateVersionReturned == "version_written" \in effects /\ "descriptor_rewrite" \notin succeeded

\* C1: once update_version() has returned with the accepted version v, VERSION
\* holds exactly v and the version embedded in setup.py is v, whatever accepted
\* version setup.py held before.
C1_BothCopiesEqualAccepted ==
    UpdateVersionReturned =>
        /\ VERSION = new_version
        /\ EmbeddedVersion(setup_py) = new_version

\* C2: a turn of the prompt loop whose input fails the shape check or fails
\* version.parse changes neither VERSION nor setup.py and leads back to the
\* prompt.
C2_RejectedNeverWritten ==
    [][ (/\ pc = "version_update" /\ phase = "act"
         /\ ~(re_match_shape(new_version) /\ version_parse_ok(new_version)))
        => (/\ VERSION' = VERSION
            /\ setup_py' = setup_py
            /\ pc' = "version_update"
            /\ phase' = "ask again") ]_vars

\* the prompt is up again after an input that had the right shape was refused
\* by version.parse; nothing was written
C2_Witness ==
    /\ pc = "version_update" /\ phase = "ask again"
    /\ "version_written" \notin effects
    /\ VERSION = DefaultVersion /\ setup_py = DefaultSetup

\* the step in which the credential of pair p is resolved
StepOf(p) == IF p = GithubToken THEN "github_login" ELSE "upload"
Resolving(p) == pc = StepOf(p) /\ phase = "ask" /\ phase' = "act"

\* what a resolution must have used when source "set"/"exists" means has(x)
ResolvedBy(p, has(_)) ==
    IF has(environ[EnvName(p)])
    THEN /\ cred'[p].source = "env"
         /\ cred'[p].value = environ[EnvName(p)]
         /\ cred'[p].consulted = {"env"}
         /\ keyring'[p] = keyring[p]
    ELSE IF has(keyring[p])
    THEN /\ cred'[p].source = "keyring"
         /\ cred'[p].value = keyring[p]
         /\ cred'[p].consulted = {"env", "keyring"}
         /\ keyring'[p] = keyring[p]
    ELSE /\ cred'[p].source = "prompt"
         /\ cred'[p].consulted = {"env", "keyring", "prompt"}
         /\ keyring'[p] \in {keyring[p], cred'[p].value}

IsSet(x) == x # Unset

\* C3 as stated: the environment variable's value when it is set, otherwise
\* the keyring's value when one exists, otherwise the prompt; no lower source
\* consulted.
C3_EnvThenKeyringThenPrompt ==
    [][ \A p \in Pairs : Resolving(p) => ResolvedBy(p, IsSet) ]_vars

\* C3 amended: the environment variable's value when it is set to a non-empty
\* string, otherwise the keyring's value when a non-empty one is stored,
\* otherwise the prompt; no lower source consulted.
C3_NonEmptyEnvThenKeyringThenPrompt ==
    [][ \A p \in Pairs : Resolving(p) => ResolvedBy(p, Truthy) ]_vars

\* GITHUB_TOKEN is set but empty and the login used the stored token
C3_Witness ==
    /\ pc = "github_login" /\ phase = "act"
    /\ environ["GITHUB_TOKEN"] = ""
    /\ cred[GithubToken].source = "keyring"
    /\ cred[GithubToken].value = "k"

\* C4: when a login attempt has failed, the keyring holds no github token as
\* the next attempt resolves its token, and that attempt prompts for one.
C4_RepromptAfterFailure ==
    [][ (pc = "github_login" /\ phase = "ask" /\ attempt > 0 /\ phase' = "act")
        => (/\ keyring[GithubToken] = Unset
            /\ cred'[GithubToken].source = "prompt") ]_vars

LoginBounded ==
    /\ pc = "github_login" => attempt < login_max_attempts
    /\ "github_login" \in succeeded => pc # "github_login"
    /\ failed = "github_login" => pc = "exited" /\ exit_code # 0

\* C5: github_login ends: no more than max_attempts attempts are made, the
\* first successful one returns, the last one failing ends the process with a
\* non-zero status, and every login is eventually over.
C5_LoginTerminates ==
    /\ []LoginBounded
    /\ [][ (pc = "github_login" /\ phase = "act" /\ attempt = login_max_attempts - 1)
           => (\/ pc' = "exited" /\ exit_code' # 0
               \/ pc' = "remote_setup" /\ "github_login" \in succeeded') ]_vars
    /\ (pc = "github_login") ~> (pc # "github_login")

\* the third attempt has failed and the process has exited with 1
C5_Witness ==
    /\ pc = "exited" /\ failed = "github_login" /\ exit_code = 1
    /\ attempt = login_max_attempts - 1

\* C6: when an upload attempt has failed and another follows, neither pypi
\* entry is in the keyring; when upload_to_pypi gives up, the run exits
\* non-zero and update_setup_py_version has not run.
C6_UploadFailure ==
    /\ (pc = "upload" /\ attempt > 0 /\ phase = "ask")
          => keyring[PypiUsername] = Unset /\ keyring[PypiToken] = Unset
    /\ pc = "upload" => attempt < upload_max_attempts
    /\ failed = "upload"
          => /\ pc = "exited" /\ exit_code # 0
             /\ "setup_rewritten" \notin effects
             /\ "descriptor_rewrite" \notin succeeded
    /\ "upload_returned_false" \in effects
          => failed = "upload" /\ attempt = upload_max_attempts - 1

\* upload_to_pypi has returned False after its third failed attempt
C6_Witness ==
    /\ "upload_returned_false" \in effects
    /\ pc = "exited" /\ exit_code = 1
    /\ keyring[PypiUsername] = Unset /\ keyring[PypiToken] = Unset

\* C7: 'git remote add origin' is run exactly when no remote is named origin,
\* and a remote named origin exists whenever the run is at the push or past it.
C7_OriginAddedIffMissing ==
    /\ [][ (pc = "remote_setup" /\ "remotes_listed" \in effects')
           => (add_attempted' <=> OriginName \notin DOMAIN remotes) ]_vars
    /\ []("add_commit" \in succeeded => OriginName \in DOMAIN remotes)

\* the external side effects a step leaves behind when it succeeds
StepEffects(step) ==
    CASE step = "remote_setup" -> {"remotes_listed"}
      [] step = "fetch_merge" -> {"fetched", "merged"}
      [] step = "version_update" -> {"version_written"}
      [] step = "add_commit" -> {"committed"}
      [] step = "push" -> {"pushed"}
      [] step = "release" -> {"released"}
      [] step = "build" -> {"built"}
      [] step = "upload" -> {"uploaded"}
      [] step = "descriptor_rewrite" -> {"setup_rewritten"}
      [] OTHER -> {}

\* the step that produces an effect
EffectStep(e) ==
    CASE e \in {"remotes_listed", "remote_added"} -> "remote_setup"
      [] e \in {"fetched", "merged"} -> "fetch_merge"
      [] e = "version_written" -> "version_update"
      [] e = "committed" -> "add_commit"
      [] e = "pushed" -> "push"
      [] e = "released" -> "release"
      [] e = "dist_cleaned" -> "clean"
      [] e = "built" -> "build"
      [] e \in {"uploaded", "upload_returned_false"} -> "upload"
      [] e = "setup_rewritten" -> "descriptor_rewrite"

Before(step) == {StepOrder[i] : i \in 1..(IndexOf(step) - 1)}

\* C8: the process exits with 0 only when every step succeeded; a failing step
\* ends it with a non-zero status, no later step has run or left an effect,
\* and the effects of the steps before it are still there.
C8_AbortOnFirstFailure ==
    /\ pc = "exited" => (exit_code = 0 /\ failed = "none") \/ (exit_code # 0 /\ failed # "none")
    /\ (pc = "exited" /\ exit_code = 0) => succeeded = Steps
    /\ failed # "none" => pc = "exited" /\ exit_code # 0 /\ succeeded = Before(failed)
    /\ \A e \in effects : EffectStep(e) \in succeeded \cup {failed, pc}
    /\ \A st \in succeeded : StepEffects(st) \subseteq effects

\* the release could not be created: exit 1, the commit stays pushed, nothing built
C8_Witness ==
    /\ pc = "exited" /\ exit_code = 1 /\ failed = "release"
    /\ "pushed" \in effects
    /\ "built" \notin effects

FreshBuilt == {[name |-> n, fresh |-> TRUE] : n \in BuiltNames}

DistAfterBuild ==
    /\ "build" \in succeeded =>
          /\ "clean" \in succeeded
          /\ dist.exists /\ dist.entries = FreshBuilt
          /\ dist_files = BuiltNames
    /\ "upload" \in succeeded => "build" \in succeeded /\ uploaded = BuiltNames
    /\ "upload" \notin succeeded => uploaded = {}

\* C9 as stated: the files in dist/ are deleted at the start of the run (none
\* left over once the run is past its first step), then built, then uploaded,
\* and an absent dist/ is no error.
C9_DeletedAtStart ==
    /\ pc # "repository_check" => \A e \in dist.entries : e.fresh
    /\ DistAfterBuild
    /\ failed = "clean" => dist.exists

\* C9 amended: the files in dist/ are deleted by the step that follows the
\* creation of the release and precedes the build (dist/ is empty or absent as
\* the build starts; a run that ends earlier leaves dist/ as it was), then
\* built, then uploaded: once the build has succeeded dist/ holds the newly
\* built artifacts and nothing else, and these are what is uploaded.  The
\* deleting step fails only on a dist/ that exists and holds a directory.
C9_DeleteBuildUpload ==
    /\ pc = "build" => dist.entries = {}
    /\ "clean" \notin succeeded /\ failed # "clean" => \A e \in dist.entries : ~e.fresh
    /\ DistAfterBuild
    /\ failed = "clean" => dist.exists /\ \E e \in dist.entries : IsDirectory(e.name)

\* a run that found files in dist/ has ended with 0
C9_Witness ==
    /\ pc = "exited" /\ exit_code = 0
    /\ "dist_cleaned" \in effects
    /\ dist.entries = FreshBuilt

FirstMatch(c) ==
    LET at == {i \in 1..Len(c) : MatchLen(c, i, Quotes) > 0}
    IN  IF at = {} THEN 0 ELSE CHOOSE i \in at : \A j \in at : i <= j

FirstOnly(c, v) ==
    LET i == FirstMatch(c)
    IN  IF i = 0 THEN c
        ELSE Sub(c, 1, i - 1) \o Replacement(v) \o Sub(c, i + MatchLen(c, i, Quotes), Len(c))

\* C10: update_version() rewrites the first text of setup.py that matches
\* version=<quote><digits and dots><quote> and leaves the rest of the text,
\* later matches included, as it was.
C10_OnlyFirstOccurrence ==
    [][ (pc = "version_update" /\ pc' = "add_commit")
        => setup_py' = FirstOnly(setup_py, new_version) ]_vars

====
